---- MODULE Spec2Model ----
(***************************************************************************)
(* Model of axum-route-error: the RouteError value (src/route_error.rs),   *)
(* its RouteInternalError alias (src/route_internal_error.rs) and the      *)
(* serialized RouteErrorOutput (src/route_error_output.rs).                *)
(*                                                                         *)
(* A handler constructs one value, passes it through a chain of builders   *)
(* (each consumes `self` and returns a new value) and converts it once     *)
(* with into_response.  The const generic EXPOSE_INTERNAL_ERROR is part of *)
(* the value's type; it is carried here as the field `expose`.             *)
(*                                                                         *)
(* Option<T> is a sequence of length 0 (None) or 1 (Some).  A JSON object  *)
(* is the sequence of its entries in the order serde writes them, so a     *)
(* key written twice is two entries.  Extra data are serde structs: a      *)
(* sequence of named fields with distinct names.                           *)
(***************************************************************************)
EXTENDS Naturals, Sequences, FiniteSets

VARIABLES
    pc,        \* "idle", "built" (a value is live), "responded" (converted)
    value,     \* the live RouteError
    lastOp,    \* the operation that ran last
    lastText,  \* Option: the text of the last set_public_error_message call
    response,  \* Option: the Response produced by into_response
    log        \* the events emitted through tracing::error!

vars == <<pc, value, lastOp, lastText, response, log>>

---------------------------------------------------------------------------
(* Bounds *)

\* Largest number of fields of an extra-data struct.
MaxFields == 2
\* Largest number of tracing events kept in the log.
MaxLog == 2

---------------------------------------------------------------------------
(* Status codes named by the source *)

CONFLICT == 409
UNAUTHORIZED == 401
NOT_FOUND == 404
BAD_REQUEST == 400
FORBIDDEN == 403
IM_A_TEAPOT == 418
TOO_MANY_REQUESTS == 429
BAD_GATEWAY == 502
SERVICE_UNAVAILABLE == 503
GATEWAY_TIMEOUT == 504
INTERNAL_SERVER_ERROR == 500

TableStatusCodes ==
    { CONFLICT, UNAUTHORIZED, NOT_FOUND, BAD_REQUEST, FORBIDDEN, IM_A_TEAPOT,
      TOO_MANY_REQUESTS, BAD_GATEWAY, SERVICE_UNAVAILABLE, GATEWAY_TIMEOUT,
      INTERNAL_SERVER_ERROR }

\* Status codes a caller can pass that the table does not name.
OtherStatusCodes == { 200, 422 }

StatusCodes == TableStatusCodes \cup OtherStatusCodes

---------------------------------------------------------------------------
(* Inputs *)

None == << >>
Some(x) == << x >>

\* An anyhow::Error is its chain of messages, outermost first.
AnyhowErrors ==
    { << "Too many foxes in the DB" >>,
      << "Query failed", "Too many foxes in the DB" >> }

\* format!("{}", err): the outermost message.
Display(err) == err[1]

\* format!("{:?}", err): the outermost message, then the cause.
DebugFmt(err) ==
    IF Len(err) = 1
    THEN err[1]
    ELSE err[1] \o "\n\nCaused by:\n    " \o err[2]

\* Texts passed to set_public_error_message.
PublicMessages == { "", "Custom message" }

JStr(s) == [str |-> s]
JObj(entries) == [obj |-> entries]
Entry(k, v) == [key |-> k, value |-> v]

FieldNames == { "error", "internal_error", "guid" }
FieldValues == { "abc123" }

Fields == { Entry(k, JStr(v)) : k \in FieldNames, v \in FieldValues }

SeqsUpTo(S, n) == UNION { [1..m -> S] : m \in 0..n }

\* The extra-data structs: up to MaxFields fields with distinct names.
ExtraDatas ==
    { s \in SeqsUpTo(Fields, MaxFields) :
        \A i, j \in 1..Len(s) : s[i].key = s[j].key => i = j }

---------------------------------------------------------------------------
(* The value and its operations *)

\* Mutant: the INTERNAL_SERVER_ERROR arm is missing, so 500 takes the fallback.
status_code_to_public_message_without_500(code) ==
    CASE code = CONFLICT -> "The request is not allowed"
      [] code = UNAUTHORIZED -> "You are not authorised to access this endpoint"
      [] code = NOT_FOUND -> "The resource was not found"
      [] code = BAD_REQUEST -> "Bad request made"
      [] code = FORBIDDEN -> "Request is forbidden"
      [] code = IM_A_TEAPOT -> "I'm a teapot"
      [] code = TOO_MANY_REQUESTS -> "Too many requests"
      [] code = BAD_GATEWAY -> "Bad gateway"
      [] code = SERVICE_UNAVAILABLE -> "Service unavailable"
      [] code = GATEWAY_TIMEOUT -> "Gateway timeout"
      [] OTHER -> "An unknown error occurred"

\* Mutant: the fallback arm yields the empty string.
status_code_to_public_message_empty_fallback(code) ==
    CASE code = CONFLICT -> "The request is not allowed"
      [] code = UNAUTHORIZED -> "You are not authorised to access this endpoint"
      [] code = NOT_FOUND -> "The resource was not found"
      [] code = BAD_REQUEST -> "Bad request made"
      [] code = FORBIDDEN -> "Request is forbidden"
      [] code = IM_A_TEAPOT -> "I'm a teapot"
      [] code = TOO_MANY_REQUESTS -> "Too many requests"
      [] code = BAD_GATEWAY -> "Bad gateway"
      [] code = SERVICE_UNAVAILABLE -> "Service unavailable"
      [] code = GATEWAY_TIMEOUT -> "Gateway timeout"
      [] code = INTERNAL_SERVER_ERROR -> "An unexpected error occurred"
      [] OTHER -> ""

status_code_to_public_message(code) ==
    CASE code = CONFLICT -> "The request is not allowed"
      [] code = UNAUTHORIZED -> "You are not authorised to access this endpoint"
      [] code = NOT_FOUND -> "The resource was not found"
      [] code = BAD_REQUEST -> "Bad request made"
      [] code = FORBIDDEN -> "Request is forbidden"
      [] code = IM_A_TEAPOT -> "I'm a teapot"
      [] code = TOO_MANY_REQUESTS -> "Too many requests"
      [] code = BAD_GATEWAY -> "Bad gateway"
      [] code = SERVICE_UNAVAILABLE -> "Service unavailable"
      [] code = GATEWAY_TIMEOUT -> "Gateway timeout"
      [] code = INTERNAL_SERVER_ERROR -> "An unexpected error occurred"
      [] OTHER -> "An unknown error occurred"

\* Default::default() of RouteError<S, EXPOSE_INTERNAL_ERROR>.
default(expose) ==
    [ status_code |-> INTERNAL_SERVER_ERROR,
      error |-> None,
      extra_data |-> None,
      public_error_message |-> None,
      expose |-> expose ]

\* RouteError::new_from_status, defined on RouteError<()> (expose = false).
new_from_status(code) ==
    [ default(FALSE) EXCEPT !.status_code = code ]

new_unauthorized == new_from_status(UNAUTHORIZED)
new_not_found == new_from_status(NOT_FOUND)
new_bad_request == new_from_status(BAD_REQUEST)
new_internal_server == new_from_status(INTERNAL_SERVER_ERROR)
new_conflict == new_from_status(CONFLICT)
new_forbidden == new_from_status(FORBIDDEN)

\* Mutant: `..Self::default()` in place of `..self`.
set_status_code_from_default(self, code) ==
    [ status_code |-> code,
      error |-> None,
      extra_data |-> None,
      public_error_message |-> None,
      expose |-> self.expose ]

set_status_code(self, code) ==
    [ self EXCEPT !.status_code = code ]

\* Mutant: `..Self::default()` in place of `..self`.
set_error_from_default(self, err) ==
    [ status_code |-> INTERNAL_SERVER_ERROR,
      error |-> Some(err),
      extra_data |-> None,
      public_error_message |-> None,
      expose |-> self.expose ]

set_error(self, err) ==
    [ self EXCEPT !.error = Some(err) ]

\* The return type is RouteError<NewS>: the exposure parameter is not
\* named, so it takes its default, false.
set_error_data(self, data) ==
    [ extra_data |-> Some(data),
      status_code |-> self.status_code,
      error |-> self.error,
      public_error_message |-> self.public_error_message,
      expose |-> FALSE ]

set_public_error_message(self, text) ==
    [ self EXCEPT !.public_error_message = Some(text) ]

status_code(self) == self.status_code

public_error_message(self) ==
    IF self.public_error_message # None
    THEN self.public_error_message[1]
    ELSE status_code_to_public_message(status_code(self))

\* Mutant: the converted error is logged but not attached.
from_without_error(err, expose) ==
    [ status_code |-> INTERNAL_SERVER_ERROR,
      error |-> None,
      extra_data |-> None,
      public_error_message |-> None,
      expose |-> expose ]

\* impl From<FE> for RouteError<S, EXPOSE_INTERNAL_ERROR>: the value built.
from(err, expose) ==
    [ default(expose) EXCEPT !.status_code = INTERNAL_SERVER_ERROR,
                             !.error = Some(err) ]

\* Mutant: the two format strings are exchanged.
RouteInternalErrorOutput_swapped(err) ==
    [ name |-> DebugFmt(err), debug |-> Display(err) ]

\* RouteInternalErrorOutput built from the attached error.
RouteInternalErrorOutput(err) ==
    [ name |-> Display(err), debug |-> DebugFmt(err) ]

\* RouteErrorOutput::default().
RouteErrorOutputDefault ==
    [ error |-> "An unknown error occurred",
      internal_error |-> None,
      extra_data |-> None ]

\* Mutant: `extra_data` without #[serde(flatten)]: written under its own key.
Serialize_nested(output) ==
    << Entry("error", JStr(output.error)) >>
    \o ( IF output.internal_error = None
         THEN << >>
         ELSE << Entry("internal_error",
                       JObj(<< Entry("name", JStr(output.internal_error[1].name)),
                               Entry("debug", JStr(output.internal_error[1].debug)) >>)) >> )
    \o ( IF output.extra_data = None
         THEN << >>
         ELSE << Entry("extra_data", JObj(output.extra_data[1])) >> )

\* The derived Serialize of RouteErrorOutput: `error`, then `internal_error`
\* unless it is None, then the fields of `extra_data` flattened unless it is
\* None.
Serialize(output) ==
    << Entry("error", JStr(output.error)) >>
    \o ( IF output.internal_error = None
         THEN << >>
         ELSE << Entry("internal_error",
                       JObj(<< Entry("name", JStr(output.internal_error[1].name)),
                               Entry("debug", JStr(output.internal_error[1].debug)) >>)) >> )
    \o ( IF output.extra_data = None
         THEN << >>
         ELSE output.extra_data[1] )

\* Mutant: the EXPOSE_INTERNAL_ERROR test is dropped.
internal_error_output_always(self) ==
    IF self.error # None
    THEN Some(RouteInternalErrorOutput(self.error[1]))
    ELSE None

\* The `internal_error` of into_response: rendered only when the type's
\* EXPOSE_INTERNAL_ERROR is true and an error is attached.
internal_error_output(self) ==
    IF self.expose
    THEN IF self.error # None
         THEN Some(RouteInternalErrorOutput(self.error[1]))
         ELSE None
    ELSE None

\* Mutant: the body alone is converted, which answers 200 OK.
Respond_without_status(status, output) ==
    [ status |-> 200, output |-> output, body |-> Serialize(output) ]

\* (status, Json(output)).into_response(): the status and the serialized
\* output.
Respond(status, output) ==
    [ status |-> status, output |-> output, body |-> Serialize(output) ]

\* IntoResponse::into_response.
into_response(self) ==
    LET status == status_code(self)
        extra_data == self.extra_data
        error == IF self.public_error_message # None
                 THEN self.public_error_message[1]
                 ELSE status_code_to_public_message(status)
        internal_error == internal_error_output(self)
        output == [ RouteErrorOutputDefault EXCEPT !.error = error,
                                                   !.internal_error = internal_error,
                                                   !.extra_data = extra_data ]
    IN  Respond(status, output)

---------------------------------------------------------------------------
(* The handler's steps *)

Construct(v, op) ==
    /\ pc \in { "idle", "responded" }
    /\ pc' = "built"
    /\ value' = v
    /\ lastOp' = op
    /\ lastText' = None
    /\ response' = None

Build(v, op) ==
    /\ pc = "built"
    /\ pc' = "built"
    /\ value' = v
    /\ lastOp' = op
    /\ response' = None
    /\ UNCHANGED log

Default ==
    \E expose \in BOOLEAN :
        /\ Construct(default(expose), "default")
        /\ UNCHANGED log

NewFromStatus ==
    \E code \in StatusCodes :
        /\ Construct(new_from_status(code), "new_from_status")
        /\ UNCHANGED log

NewUnauthorized == Construct(new_unauthorized, "new_unauthorized") /\ UNCHANGED log
NewNotFound == Construct(new_not_found, "new_not_found") /\ UNCHANGED log
NewBadRequest == Construct(new_bad_request, "new_bad_request") /\ UNCHANGED log
NewInternalServer == Construct(new_internal_server, "new_internal_server") /\ UNCHANGED log
NewConflict == Construct(new_conflict, "new_conflict") /\ UNCHANGED log
NewForbidden == Construct(new_forbidden, "new_forbidden") /\ UNCHANGED log

\* From::from: logs the debug rendering, then builds the value.
From ==
    \E err \in AnyhowErrors, expose \in BOOLEAN :
        /\ Len(log) < MaxLog
        /\ log' = Append(log, DebugFmt(err))
        /\ Construct(from(err, expose), "from")

SetStatusCode ==
    \E code \in StatusCodes :
        /\ Build(set_status_code(value, code), "set_status_code")
        /\ UNCHANGED lastText

SetError ==
    \E err \in AnyhowErrors :
        /\ Build(set_error(value, err), "set_error")
        /\ UNCHANGED lastText

SetErrorData ==
    \E data \in ExtraDatas :
        /\ Build(set_error_data(value, data), "set_error_data")
        /\ UNCHANGED lastText

SetPublicErrorMessage ==
    \E text \in PublicMessages :
        /\ Build(set_public_error_message(value, text), "set_public_error_message")
        /\ lastText' = Some(text)

IntoResponse ==
    /\ pc = "built"
    /\ pc' = "responded"
    /\ response' = Some(into_response(value))
    /\ lastOp' = "into_response"
    /\ UNCHANGED <<value, lastText, log>>

Init ==
    /\ pc = "idle"
    /\ value = default(FALSE)
    /\ lastOp = "none"
    /\ lastText = None
    /\ response = None
    /\ log = << >>

Next ==
    \/ Default
    \/ NewFromStatus
    \/ NewUnauthorized
    \/ NewNotFound
    \/ NewBadRequest
    \/ NewInternalServer
    \/ NewConflict
    \/ NewForbidden
    \/ From
    \/ SetStatusCode
    \/ SetError
    \/ SetErrorData
    \/ SetPublicErrorMessage
    \/ IntoResponse

Spec == Init /\ [][Next]_vars

---------------------------------------------------------------------------
(* Properties *)

Responded == pc = "responded"
Resp == response[1]

\* The number of entries of a JSON object written under key k.
KeyCount(entries, k) ==
    Cardinality({ i \in 1..Len(entries) : entries[i].key = k })

\* The fields of the value's extra data (none when it is not set).
ExtraFields(v) == IF v.extra_data = None THEN << >> ELSE v.extra_data[1]

\* The body entry that renders an attached error.
DiagnosticEntry(err) ==
    Entry("internal_error",
          JObj(<< Entry("name", JStr(Display(err))),
                  Entry("debug", JStr(DebugFmt(err))) >>))

\* C1 as stated: a converted RouteError (EXPOSE_INTERNAL_ERROR = false) has
\* no internal_error key in its body, however it was built.
C1_Original ==
    (Responded /\ ~value.expose) => KeyCount(Resp.body, "internal_error") = 0

\* C1, amended: a converted RouteError (EXPOSE_INTERNAL_ERROR = false) never
\* renders its diagnostic: the output's internal_error is None, and the body
\* has an internal_error key only where the extra data itself has a field of
\* that name.
C1_PublicNeverRendersDiagnostic ==
    (Responded /\ ~value.expose) =>
        /\ Resp.output.internal_error = None
        /\ KeyCount(Resp.body, "internal_error")
              = KeyCount(ExtraFields(value), "internal_error")
        /\ \A i \in 1..Len(Resp.body) :
              Resp.body[i].key = "internal_error" =>
                  /\ i > 1
                  /\ Resp.body[i] = ExtraFields(value)[i - 1]

C1_Witness ==
    /\ Responded
    /\ ~value.expose
    /\ value.error # None
    /\ KeyCount(ExtraFields(value), "internal_error") = 0
    /\ value.extra_data # None

\* C2: a converted RouteInternalError (EXPOSE_INTERNAL_ERROR = true) has an
\* internal_error entry in its body if and only if a diagnostic is attached;
\* the entry's name is the diagnostic's display text and its debug is the
\* diagnostic's debug text.
C2_InternalRendersDiagnostic ==
    (Responded /\ value.expose) =>
        /\ KeyCount(Resp.body, "internal_error") = (IF value.error = None THEN 0 ELSE 1)
        /\ value.error # None =>
              /\ Resp.body[2] = DiagnosticEntry(value.error[1])
              /\ Resp.output.internal_error[1].name = Display(value.error[1])
              /\ Resp.output.internal_error[1].debug = DebugFmt(value.error[1])

C2_Witness ==
    /\ Responded
    /\ value.expose
    /\ value.error = Some(<< "Query failed", "Too many foxes in the DB" >>)
    /\ KeyCount(Resp.body, "internal_error") = 1

\* C3: the value built by From, under either exposure variant, has status
\* 500, the converted error attached, no extra data and no explicit message;
\* the conversion logged the error's debug rendering.
C3_FromYields500WithDiagnostic ==
    lastOp = "from" =>
        /\ status_code(value) = 500
        /\ value.error # None
        /\ value.error[1] \in AnyhowErrors
        /\ value.extra_data = None
        /\ value.public_error_message = None
        /\ Len(log) >= 1
        /\ log[Len(log)] = DebugFmt(value.error[1])

C3_Witness ==
    /\ lastOp = "from"
    /\ value.expose
    /\ value.error = Some(<< "Too many foxes in the DB" >>)

\* The default-message table as the specification gives it.
TabulatedMessage ==
    [ code \in StatusCodes |->
        IF code = 409 THEN "The request is not allowed"
        ELSE IF code = 401 THEN "You are not authorised to access this endpoint"
        ELSE IF code = 404 THEN "The resource was not found"
        ELSE IF code = 400 THEN "Bad request made"
        ELSE IF code = 403 THEN "Request is forbidden"
        ELSE IF code = 418 THEN "I'm a teapot"
        ELSE IF code = 429 THEN "Too many requests"
        ELSE IF code = 502 THEN "Bad gateway"
        ELSE IF code = 503 THEN "Service unavailable"
        ELSE IF code = 504 THEN "Gateway timeout"
        ELSE IF code = 500 THEN "An unexpected error occurred"
        ELSE "An unknown error occurred" ]

\* C4: with no explicit message, public_error_message() is the tabulated
\* string for the eleven statuses of the table and "An unknown error
\* occurred" for every other status.
C4_DefaultMessageTable ==
    value.public_error_message = None =>
        public_error_message(value) = TabulatedMessage[value.status_code]

C4_Witness ==
    /\ value.public_error_message = None
    /\ value.status_code \in OtherStatusCodes
    /\ lastOp = "set_status_code"
    /\ public_error_message(value) = "An unknown error occurred"

C7_Original ==
    public_error_message(value) # ""

\* C7, amended: public_error_message() is the explicit message if one is
\* set, else the status-derived default; it is empty exactly when the
\* explicit message set is the empty string.
C7_MessageEmptyOnlyIfSetEmpty ==
    /\ lastText # None => public_error_message(value) = lastText[1]
    /\ lastText = None =>
          public_error_message(value) = TabulatedMessage[value.status_code]
    /\ public_error_message(value) = "" <=> lastText = Some("")

C7_Witness ==
    /\ pc = "built"
    /\ lastText = Some("")
    /\ public_error_message(value) = ""
    /\ value.status_code \in OtherStatusCodes

\* C8 as stated: the body holds exactly one error field for every
\* extra-data shape, and the extra-data fields are at its top level when set
\* and absent when not.
C8_Original ==
    Responded =>
        /\ KeyCount(Resp.body, "error") = 1
        /\ \A i \in 1..Len(ExtraFields(value)) :
              \E j \in 1..Len(Resp.body) : Resp.body[j] = ExtraFields(value)[i]
        /\ value.extra_data = None =>
              \A j \in 1..Len(Resp.body) :
                  Resp.body[j].key \in { "error", "internal_error" }

\* C8, amended: the body starts with the one error entry written from the
\* message; the extra-data fields follow at its top level with no wrapper
\* key and are absent when not set; the body holds one error key more for an
\* extra-data field named error, so exactly one when no field has that name.
C8_ErrorFirstExtraDataFlattened ==
    Responded =>
        /\ Resp.body[1].key = "error"
        /\ Resp.body[1].value = JStr(Resp.output.error)
        /\ Resp.body =
              << Resp.body[1] >>
              \o ( IF value.expose /\ value.error # None
                   THEN << DiagnosticEntry(value.error[1]) >>
                   ELSE << >> )
              \o ExtraFields(value)
        /\ KeyCount(Resp.body, "error")
              = 1 + KeyCount(ExtraFields(value), "error")
        /\ KeyCount(Resp.body, "extra_data") = 0

C8_Witness ==
    /\ Responded
    /\ Len(ExtraFields(value)) = 2
    /\ KeyCount(ExtraFields(value), "guid") = 1
    /\ KeyCount(ExtraFields(value), "error") = 1
    /\ KeyCount(Resp.body, "error") = 2

\* C9: each builder changes only its own field.  set_error attaches the
\* error and leaves status, message, extra data and variant as they were, so
\* status_code() and public_error_message() read the same before and after;
\* set_status_code changes only the status; set_public_error_message changes
\* only the explicit message.
C9_BuildersChangeOwnField ==
    [][ /\ lastOp' = "set_error" =>
              /\ value'.error # None
              /\ value'.status_code = value.status_code
              /\ value'.public_error_message = value.public_error_message
              /\ value'.extra_data = value.extra_data
              /\ value'.expose = value.expose
              /\ status_code(value') = status_code(value)
              /\ public_error_message(value') = public_error_message(value)
        /\ lastOp' = "set_status_code" =>
              /\ value'.error = value.error
              /\ value'.public_error_message = value.public_error_message
              /\ value'.extra_data = value.extra_data
              /\ value'.expose = value.expose
        /\ lastOp' = "set_public_error_message" =>
              /\ value'.public_error_message # None
              /\ value'.status_code = value.status_code
              /\ value'.error = value.error
              /\ value'.extra_data = value.extra_data
              /\ value'.expose = value.expose
      ]_vars

C9_Witness ==
    /\ lastOp = "set_error"
    /\ value.status_code = NOT_FOUND
    /\ value.public_error_message = Some("Custom message")
    /\ value.extra_data # None
    /\ value.error = Some(<< "Query failed", "Too many foxes in the DB" >>)

\* C10 as stated: set_error_data changes only the extra data; the status,
\* the diagnostic, the explicit message and the exposure variant of the
\* result are those of the input.
C10_SetErrorDataChangesOnlyExtraData ==
    [][ lastOp' = "set_error_data" =>
              /\ value'.extra_data # None
              /\ value'.status_code = value.status_code
              /\ value'.error = value.error
              /\ value'.public_error_message = value.public_error_message
              /\ value'.expose = value.expose
      ]_vars

====
